---- MODULE Spec2Model ----
(***************************************************************************)
(* FourierBSDFTable::Read and FourierMaterial (materials/fourier.cpp).     *)
(*                                                                         *)
(* The file is a stream of 32-bit words, each kept as the four bytes that  *)
(* lie on disk.  A table value is the int32 (or the bit pattern of the     *)
(* float) that the host sees in memory.  Read is followed statement by     *)
(* statement through pc; ComputeScatteringFunctions runs on the material   *)
(* once its constructor's call of Read has returned.                       *)
(***************************************************************************)
EXTENDS Integers, Sequences, FiniteSets, TLC

\* ------------------------------------------------------------------ bounds
MaxCoeffs == 2          \* the header's nCoeffs ranges over -1..MaxCoeffs
MaxMMax == 2            \* the header's mMax ranges over -1..MaxMMax

\* --------------------------------------------------------- input families
\* Written header words (the values handed to the writer of the file).
FlagsValues == {1, 2, 3}
NMuValues == {-1, 0, 1, 2}
NCoeffsValues == -1 .. MaxCoeffs
MMaxValues == -1 .. MaxMMax
NChannelsValues == {0, 1, 2, 3}
NBasesValues == {1, 2}
\* bit patterns of 1.0f and 1.5f
EtaWords == {1065353216, 1069547520}
\* bit patterns of 1.0f, 0.5f, 0.25f
FloatWords == <<1065353216, 1056964608, 1048576000>>
\* what an out-of-bounds read of a[] may deliver: any word
GarbageWords == {0, 2143289344}
\* values the table's scalar fields may hold before Read stores them
PreReadValues == {0, 3}
\* written (offset, length) pairs
PairChoices == {<<0, 0>>, <<0, 1>>, <<1, 1>>, <<0, 2>>, <<MaxCoeffs, 1>>, <<-1, 0>>}

\* ------------------------------------------------------- words and bytes
\* little-endian bytes of the two's-complement int32 v
ToBytes(v) == << v % 256, (v \div 256) % 256, (v \div 65536) % 256,
                 (v \div 16777216) % 256 >>

\* the int32 whose little-endian bytes are b
FromBytes(b) == b[1] + 256 * b[2] + 65536 * b[3]
                + 16777216 * (IF b[4] >= 128 THEN b[4] - 256 ELSE b[4])

Reverse4(b) == << b[4], b[3], b[2], b[1] >>

\* the writer: the four bytes a value occupies on disk in the given order
EncodeWord(v, bigEndian) == IF bigEndian THEN Reverse4(ToBytes(v)) ELSE ToBytes(v)

\* the value a writer of the given byte order stored in the disk bytes b
WrittenValue(b, bigEndian) == IF bigEndian THEN FromBytes(Reverse4(b)) ELSE FromBytes(b)

VARIABLES
    pc,               \* position in the constructor / Read
    hostBigEndian,    \* native byte order of the host
    fileBigEndian,    \* byte order the file was written in
    file,             \* the 32-bit words after the magic read so far (disk bytes)
    fpos,             \* bytes consumed from the stream by fread
    fileOpen,         \* FILE *f is open
    opened,           \* fopen succeeded
    closeCount,       \* number of fclose(f) calls
    nMu, mMax, nChannels, eta,             \* bsdfTable scalars
    mu, cdf, a0, aOffset, m, a, recip,     \* bsdfTable arrays
    flags, nCoeffs, nBases,                \* locals of Read
    offsetAndLength,                       \* unique_ptr<int[]> local of Read
    ret,              \* "pending", "true", "false": Read's return value
    errorMsg,         \* the message passed to Error(), "none" if none
    cause,            \* why Read went to failure, "none" if it did not
    fromFile,         \* table scalars assigned from the file's header
    swaps,            \* set of outcomes of successful read32 calls: "swapped", "plain"
    steps,            \* the statements of Read executed, in order
    bsdfAdded         \* "none", "added", "skipped": ComputeScatteringFunctions

vars == << pc, hostBigEndian, fileBigEndian, file, fpos, fileOpen, opened,
           closeCount, nMu, mMax, nChannels, eta, mu, cdf, a0, aOffset, m, a,
           recip, flags, nCoeffs, nBases, offsetAndLength, ret, errorMsg,
           cause, fromFile, swaps, steps, bsdfAdded >>

\* ------------------------------------------------------------- pointers
\* An array pointer: null, wild (never assigned), or a heap block of `size`
\* elements of which the prefix `data` has been written.
Null == [ptr |-> "null", size |-> 0, data |-> <<>>]
Wild == [ptr |-> "wild", size |-> 0, data |-> <<>>]
NewArray(n) == [ptr |-> "heap", size |-> n, data |-> <<>>]
Filled(arr, d) == [arr EXCEPT !.data = d]

\* ------------------------------------------------------------ host reads
\* the bytes of an int32 in this host's memory
MemBytes(v) == IF hostBigEndian THEN Reverse4(ToBytes(v)) ELSE ToBytes(v)

\* the int32 this host sees in four memory bytes
NativeInt(b) == IF hostBigEndian THEN FromBytes(Reverse4(b)) ELSE FromBytes(b)

IsBigEndian_NoSwap == FALSE

\* uint32_t i = 0x01020304; memcpy(c, &i, 4); return c[0] == 1
IsBigEndian == MemBytes(16909060)[1] = 1

bswap32(v) == FromBytes(Reverse4(ToBytes(v)))

\* one element of a successful read32: fread copies the disk bytes into
\* memory, then the word is byte-swapped on a big-endian host
read32Word(b) == IF IsBigEndian THEN bswap32(NativeInt(b)) ELSE NativeInt(b)

\* the swap mark a successful read32 leaves
SwapMark == IF IsBigEndian THEN "swapped" ELSE "plain"

\* readfloat in the build where Float is float (sizeof(*target) ==
\* sizeof(float), line 124): read32 on the same buffer
readfloatWord(b) == read32Word(b)

Map(f(_), s) == [i \in 1 .. Len(s) |-> f(s[i])]


\* ---------------------------------------------------------------- header
\* element counts of the nine read32/readfloat calls on the header:
\* flags, nMu, nCoeffs, mMax, nChannels, nBases, unused[3], eta, unused[4]
HeaderCounts == << 1, 1, 1, 1, 1, 1, 3, 1, 4 >>

RECURSIVE SumTo(_, _)
SumTo(s, r) == IF r = 0 THEN 0 ELSE s[r] + SumTo(s, r - 1)

HeaderWords == SumTo(HeaderCounts, Len(HeaderCounts))

\* the header calls are chained with ||: with k words left in the stream the
\* calls complete in order until one asks for more than remains
CompletedReads(k) ==
    CHOOSE r \in 0 .. Len(HeaderCounts) :
        /\ SumTo(HeaderCounts, r) <= k
        /\ r < Len(HeaderCounts) => SumTo(HeaderCounts, r + 1) > k

\* flags != 1 || (nChannels != 1 && nChannels != 3) || nBases != 1  goes to fail
HeaderRejected_NoBases(fl, nch, nb) == fl # 1 \/ (nch # 1 /\ nch # 3)

HeaderRejected(fl, nch, nb) == fl # 1 \/ (nch # 1 /\ nch # 3) \/ nb # 1

\* the reference sizes: nMu, nCoeffs, mMax, eta
RefSizes == << 1, 1, MaxMMax, FloatWords[1] >>

\* the written header, 14 words in file order: every size with an accepted
\* (flags, nChannels, nBases), every (flags, nChannels, nBases) with the
\* reference sizes
WrittenHeaders ==
    { << fl, n, nc, mm, nch, nb, 0, 0, 0, e, 0, 0, 0, 0 >> :
        << fl, n, nc, mm, nch, nb, e >> \in
          { t \in FlagsValues \X NMuValues \X NCoeffsValues \X MMaxValues
                  \X NChannelsValues \X NBasesValues \X EtaWords :
              \/ (t[1] = 1 /\ t[5] \in {1, 3} /\ t[6] = 1)
              \/ << t[2], t[3], t[4], t[7] >> = RefSizes } }

\* files that end inside the header carry the reference sizes
HeaderCuts(hw) ==
    IF << hw[2], hw[3], hw[4], hw[10] >> = RefSizes
    THEN 0 .. HeaderWords ELSE {HeaderWords}

\* ------------------------------------------------------------------ Init
\* The material's table before the constructor calls Read: nothing has
\* assigned its fields.  The locals of Read do not exist yet.
Init ==
    /\ pc = "start"
    /\ hostBigEndian \in BOOLEAN
    /\ fileBigEndian \in BOOLEAN
    /\ file = <<>>
    /\ fpos = 0
    /\ fileOpen = FALSE
    /\ opened = FALSE
    /\ closeCount = 0
    /\ \E g \in PreReadValues :
          /\ nMu = g /\ mMax = g /\ nChannels = g /\ eta = g
    /\ mu = Wild /\ cdf = Wild /\ a0 = Wild /\ aOffset = Wild
    /\ m = Wild /\ a = Wild /\ recip = Wild
    /\ flags = 0 /\ nCoeffs = 0 /\ nBases = 0
    /\ offsetAndLength = Null
    /\ ret = "pending"
    /\ errorMsg = "none"
    /\ cause = "none"
    /\ fromFile = {}
    /\ swaps = {}
    /\ steps = <<>>
    /\ bsdfAdded = "none"

hostVars == << hostBigEndian, fileBigEndian >>
scalarVars == << nMu, mMax, nChannels, eta >>
arrayVars == << mu, cdf, a0, aOffset, m, a, recip >>
localVars == << flags, nCoeffs, nBases >>

\* ------------------------------------------------------------------ Read
\* lines 99-107: null five pointers, fopen, return false if it failed
Open ==
    /\ pc = "start"
    /\ mu' = Null /\ cdf' = Null /\ a' = Null /\ aOffset' = Null /\ m' = Null
    /\ steps' = Append(steps, "open")
    /\ \E ok \in BOOLEAN :
          IF ok
          THEN /\ fileOpen' = TRUE /\ opened' = TRUE
               /\ pc' = "opened"
               /\ UNCHANGED << ret, errorMsg, cause >>
          ELSE /\ errorMsg' = "Unable to open tabulated BSDF file"
               /\ ret' = "false"
               /\ cause' = "open"
               /\ pc' = "returned"
               /\ UNCHANGED << fileOpen, opened >>
    /\ UNCHANGED << hostVars, file, fpos, closeCount, scalarVars, a0, recip,
                    localVars, offsetAndLength, fromFile, swaps, bsdfAdded >>

\* where the magic test at line 136 sends control
AfterMagic(got) == IF got = "match" THEN "magic_ok" ELSE "fail"

\* line 136: fread(header, 1, 8, f) != 8 || memcmp(...) != 0  goes to fail
MagicCheck ==
    /\ pc = "opened"
    /\ steps' = Append(steps, "magic")
    /\ \E got \in {"match", "mismatch", "short"} :
          /\ pc' = AfterMagic(got)
          /\ cause' = IF got = "match" THEN cause ELSE "magic"
          /\ \E n \in (IF got = "short" THEN 0 .. 7 ELSE {8}) : fpos' = fpos + n
    /\ UNCHANGED << hostVars, file, fileOpen, opened, closeCount, scalarVars,
                    arrayVars, localVars, offsetAndLength, ret, errorMsg,
                    fromFile, swaps, bsdfAdded >>

\* lines 141-146: the nine chained header reads; a field is stored exactly
\* when its read32 completed
HeaderRead ==
    /\ pc = "magic_ok"
    /\ steps' = Append(steps, "header")
    /\ \E hw \in WrittenHeaders : \E k \in HeaderCuts(hw) :
          LET disk == [i \in 1 .. HeaderWords |-> EncodeWord(hw[i], fileBigEndian)]
              r == CompletedReads(k)
              at(j) == read32Word(disk[SumTo(HeaderCounts, j - 1) + 1])
              all == r = Len(HeaderCounts)
          IN  /\ flags' = IF r >= 1 THEN at(1) ELSE flags
              /\ nMu' = IF r >= 2 THEN at(2) ELSE nMu
              /\ nCoeffs' = IF r >= 3 THEN at(3) ELSE nCoeffs
              /\ mMax' = IF r >= 4 THEN at(4) ELSE mMax
              /\ nChannels' = IF r >= 5 THEN at(5) ELSE nChannels
              /\ nBases' = IF r >= 6 THEN at(6) ELSE nBases
              /\ eta' = IF r >= 8 THEN readfloatWord(disk[SumTo(HeaderCounts, 7) + 1])
                        ELSE eta
              /\ fromFile' = fromFile
                               \cup (IF r >= 2 THEN {"nMu"} ELSE {})
                               \cup (IF r >= 4 THEN {"mMax"} ELSE {})
                               \cup (IF r >= 5 THEN {"nChannels"} ELSE {})
                               \cup (IF r >= 8 THEN {"eta"} ELSE {})
              /\ swaps' = IF r >= 1 THEN swaps \cup {SwapMark} ELSE swaps
              /\ file' = file \o SubSeq(disk, 1, k)
              /\ fpos' = fpos + 4 * k
              /\ pc' = IF all THEN "header_read" ELSE "fail"
              /\ cause' = IF all THEN cause ELSE "short_header"
    /\ UNCHANGED << hostVars, fileOpen, opened, closeCount, arrayVars,
                    offsetAndLength, ret, errorMsg, bsdfAdded >>

\* lines 151-153
Validate ==
    /\ pc = "header_read"
    /\ steps' = Append(steps, "validate")
    /\ IF HeaderRejected(flags, nChannels, nBases)
       THEN pc' = "fail" /\ cause' = "validation"
       ELSE pc' = "validated" /\ UNCHANGED cause
    /\ UNCHANGED << hostVars, file, fpos, fileOpen, opened, closeCount,
                    scalarVars, arrayVars, localVars, offsetAndLength, ret,
                    errorMsg, fromFile, swaps, bsdfAdded >>


\* ------------------------------------------------------------ allocation
\* element counts of the arrays and of the bulk reads (lines 155-166)
MuCount(n) == n
CdfCount_Row(n) == n
CdfCount(n) == n * n
PairCount(n) == n * n
OffLenCount(n) == n * n * 2

\* lines 155-161.  A new[] of negative size throws std::bad_array_new_length:
\* the exception leaves Read (and the constructor) at that statement, the
\* arrays allocated before it stay allocated, the unique_ptr is unwound, and
\* f is not closed.
Alloc ==
    /\ pc = "validated"
    /\ steps' = Append(steps, "alloc")
    /\ IF nMu < 0
       THEN /\ pc' = "threw"
            /\ UNCHANGED << arrayVars, offsetAndLength >>
       ELSE /\ mu' = NewArray(MuCount(nMu))
            /\ cdf' = NewArray(CdfCount(nMu))
            /\ a0' = NewArray(PairCount(nMu))
            /\ aOffset' = NewArray(PairCount(nMu))
            /\ m' = NewArray(PairCount(nMu))
            /\ UNCHANGED recip
            /\ IF nCoeffs < 0
               THEN /\ pc' = "threw"
                    /\ offsetAndLength' = Null
                    /\ UNCHANGED a
               ELSE /\ pc' = "allocated"
                    /\ offsetAndLength' = NewArray(OffLenCount(nMu))
                    /\ a' = NewArray(nCoeffs)
    /\ UNCHANGED << hostVars, file, fpos, fileOpen, opened, closeCount,
                    scalarVars, localVars, ret, errorMsg, cause, fromFile,
                    swaps, bsdfAdded >>

\* ------------------------------------------------------------ bulk reads
\* Files with the reference header carry every data pattern; files with any
\* other header carry one.
RichData == nChannels = 1 /\ mMax = MaxMMax /\ eta = FloatWords[1]

Seeds == IF RichData /\ nMu < 2 THEN {0, 1} ELSE {0}

\* how many of `count` requested words the stream still holds: all of them,
\* all but one, or none
Avail(count) == {count} \cup ({0, count - 1} \cap (0 .. count))

\* the written float at index i (from 1) of a section
FloatAt(seed, i) == FloatWords[((seed + i) % Len(FloatWords)) + 1]

\* the written offset/length section for n2 pairs, interleaved
Interleave(pairs) ==
    [i \in 1 .. 2 * Len(pairs) |-> pairs[(i + 1) \div 2][2 - (i % 2)]]

PlainPairs(n2) == [k \in 1 .. n2 |-> <<0, 0>>]

PairTables(n2) == IF RichData THEN [1 .. n2 -> PairChoices] ELSE {PlainPairs(n2)}

\* read32(target, count) with j of the count words left in the stream: the
\* new contents of target.  fread stores what it got; the swap runs only
\* when all of it arrived.
read32(arr, disk, count, j) ==
    IF j = count
    THEN Filled(arr, Map(read32Word, disk))
    ELSE Filled(arr, Map(NativeInt, SubSeq(disk, 1, j)))

readfloat(arr, disk, count, j) == read32(arr, disk, count, j)

AfterBulk_Ignored(complete, next) == next

\* if (!readfloat(...) || ... ) goto fail: where a bulk read sends control
AfterBulk(complete, next) == IF complete THEN next ELSE "fail"

\* what is common to the four bulk reads of lines 163-166
BulkStep(name, disk, count, j, next) ==
    /\ steps' = Append(steps, name)
    /\ file' = file \o SubSeq(disk, 1, j)
    /\ fpos' = fpos + 4 * j
    /\ pc' = AfterBulk(j = count, next)
    /\ IF j = count
       THEN /\ swaps' = swaps \cup {SwapMark}
            /\ UNCHANGED cause
       ELSE /\ cause' = "short_data"
            /\ UNCHANGED swaps
    /\ UNCHANGED << hostVars, fileOpen, opened, closeCount, scalarVars,
                    localVars, ret, errorMsg, fromFile, bsdfAdded >>

\* line 163
ReadMu ==
    /\ pc = "allocated"
    /\ \E seed \in Seeds, j \in Avail(MuCount(nMu)) :
          LET count == MuCount(nMu)
              disk == [i \in 1 .. count |-> EncodeWord(FloatAt(seed, i), fileBigEndian)]
          IN  /\ mu' = readfloat(mu, disk, count, j)
              /\ BulkStep("read_mu", disk, count, j, "mu_read")
    /\ UNCHANGED << cdf, a0, aOffset, m, a, recip, offsetAndLength >>

\* line 164
ReadCdf ==
    /\ pc = "mu_read"
    /\ \E seed \in Seeds, j \in Avail(CdfCount(nMu)) :
          LET count == CdfCount(nMu)
              disk == [i \in 1 .. count |-> EncodeWord(FloatAt(seed + 1, i), fileBigEndian)]
          IN  /\ cdf' = readfloat(cdf, disk, count, j)
              /\ BulkStep("read_cdf", disk, count, j, "cdf_read")
    /\ UNCHANGED << mu, a0, aOffset, m, a, recip, offsetAndLength >>

\* line 165
ReadOffLen ==
    /\ pc = "cdf_read"
    /\ \E pairs \in PairTables(PairCount(nMu)), j \in Avail(OffLenCount(nMu)) :
          LET count == OffLenCount(nMu)
              w == Interleave(pairs)
              disk == [i \in 1 .. count |-> EncodeWord(w[i], fileBigEndian)]
          IN  /\ j < count => pairs = PlainPairs(PairCount(nMu))
              /\ offsetAndLength' = read32(offsetAndLength, disk, count, j)
              /\ BulkStep("read_offlen", disk, count, j, "offlen_read")
    /\ UNCHANGED << mu, cdf, a0, aOffset, m, a, recip >>

\* line 166
ReadA ==
    /\ pc = "offlen_read"
    /\ \E seed \in Seeds, j \in Avail(nCoeffs) :
          LET count == nCoeffs
              disk == [i \in 1 .. count |-> EncodeWord(FloatAt(seed + 2, i), fileBigEndian)]
          IN  /\ a' = readfloat(a, disk, count, j)
              /\ BulkStep("read_a", disk, count, j, "a_read")
    /\ UNCHANGED << mu, cdf, a0, aOffset, m, recip, offsetAndLength >>


\* ------------------------------------------------------------ derivation
Offset(k) == offsetAndLength.data[2 * k - 1]
Length(k) == offsetAndLength.data[2 * k]

\* a[offset] lies inside the block new Float[nCoeffs]
InBlock(offset) == 0 <= offset /\ offset < a.size

\* pairs whose a[offset] is read (length > 0) outside the block
WildReads == { k \in 1 .. PairCount(nMu) : Length(k) > 0 /\ ~InBlock(Offset(k)) }

\* length > 0 ? a[offset] : (Float)0, g the word a wild read delivers
DcTerm(k, g) ==
    IF Length(k) > 0
    THEN IF InBlock(Offset(k)) THEN a.data[Offset(k) + 1] ELSE g
    ELSE 0

\* lines 169-177.  A read of a[offset] outside the block is undefined: it
\* delivers some word, or the process dies at that read.
Derive ==
    /\ pc = "a_read"
    /\ steps' = Append(steps, "derive")
    /\ \/ \E g \in [WildReads -> GarbageWords] :
            /\ aOffset' = Filled(aOffset, [k \in 1 .. PairCount(nMu) |-> Offset(k)])
            /\ m' = Filled(m, [k \in 1 .. PairCount(nMu) |-> Length(k)])
            /\ a0' = Filled(a0, [k \in 1 .. PairCount(nMu) |->
                                   DcTerm(k, IF k \in WildReads THEN g[k] ELSE 0)])
            /\ pc' = "derived"
       \/ /\ WildReads # {}
          /\ pc' = "crashed"
          /\ UNCHANGED << aOffset, m, a0 >>
    /\ UNCHANGED << hostVars, file, fpos, fileOpen, opened, closeCount,
                    scalarVars, mu, cdf, a, recip, localVars, offsetAndLength,
                    ret, errorMsg, cause, fromFile, swaps, bsdfAdded >>

\* 1 / (Float)i as the fraction <<1, i>>; <<1, 0>> is the infinity of i = 0
RecipValue(i) == << 1, i >>

\* lines 179-181; new Float[mMax] throws when mMax < 0
Recip ==
    /\ pc = "derived"
    /\ steps' = Append(steps, "recip")
    /\ IF mMax < 0
       THEN /\ pc' = "threw"
            /\ offsetAndLength' = Null
            /\ UNCHANGED recip
       ELSE /\ pc' = "recip_done"
            /\ recip' = Filled(NewArray(mMax), [i \in 1 .. mMax |-> RecipValue(i - 1)])
            /\ UNCHANGED offsetAndLength
    /\ UNCHANGED << hostVars, file, fpos, fileOpen, opened, closeCount,
                    scalarVars, mu, cdf, a0, aOffset, m, a, localVars, ret,
                    errorMsg, cause, fromFile, swaps, bsdfAdded >>

\* ----------------------------------------------------------------- exits
fclose_Skipped(n) == n

\* fclose(f): one more close of the handle
fclose(n) == n + 1

\* lines 183-184: fclose(f); return true.  The unique_ptr dies with the scope.
CloseReturn ==
    /\ pc = "recip_done"
    /\ steps' = steps \o << "close", "return" >>
    /\ closeCount' = fclose(closeCount)
    /\ fileOpen' = IF closeCount' > closeCount THEN FALSE ELSE fileOpen
    /\ ret' = "true"
    /\ offsetAndLength' = Null
    /\ pc' = "returned"
    /\ UNCHANGED << hostVars, file, fpos, opened, scalarVars, arrayVars,
                    localVars, errorMsg, cause, fromFile, swaps, bsdfAdded >>

FailMessage_Open == "Unable to open tabulated BSDF file"

\* the message of lines 187-190
FailMessage == "Tabulated BSDF file has an incompatible file format or version."

\* lines 185-191: fail: fclose(f); Error(...); return false
FailExit ==
    /\ pc = "fail"
    /\ steps' = steps \o << "fail_close", "return" >>
    /\ closeCount' = fclose(closeCount)
    /\ fileOpen' = IF closeCount' > closeCount THEN FALSE ELSE fileOpen
    /\ errorMsg' = FailMessage
    /\ ret' = "false"
    /\ offsetAndLength' = Null
    /\ pc' = "returned"
    /\ UNCHANGED << hostVars, file, fpos, opened, scalarVars, arrayVars,
                    localVars, cause, fromFile, swaps, bsdfAdded >>

\* ------------------------------------------------------- FourierMaterial
\* lines 200-210: the FourierBSDF is added iff bsdfTable.nChannels > 0
ComputeScatteringFunctions ==
    /\ pc = "returned"
    /\ bsdfAdded' = IF nChannels > 0 THEN "added" ELSE "skipped"
    /\ UNCHANGED << pc, hostVars, file, fpos, fileOpen, opened, closeCount,
                    scalarVars, arrayVars, localVars, offsetAndLength, ret,
                    errorMsg, cause, fromFile, swaps, steps >>

Next ==
    \/ Open
    \/ MagicCheck
    \/ HeaderRead
    \/ Validate
    \/ Alloc
    \/ ReadMu
    \/ ReadCdf
    \/ ReadOffLen
    \/ ReadA
    \/ Derive
    \/ Recip
    \/ CloseReturn
    \/ FailExit
    \/ ComputeScatteringFunctions

Spec == Init /\ [][Next]_vars


\* ================================================================ claims
Did(step) == \E i \in 1 .. Len(steps) : steps[i] = step

IsPrefix(s, t) == Len(s) <= Len(t) /\ s = SubSeq(t, 1, Len(s))

TableArrays == { mu, cdf, a0, aOffset, m, a }

\* the little-endian reading of the i-th word after the magic
FileWord(i) == FromBytes(file[i])

\* C1: after Read either the load failed, or every pair k has
\* 0 <= aOffset[k] and aOffset[k] + m[k] <= nCoeffs.
C1_OffsetsInsideBuffer ==
    ret = "true" =>
        \A k \in 1 .. nMu * nMu :
            /\ 0 <= aOffset.data[k]
            /\ aOffset.data[k] + m.data[k] <= nCoeffs

\* C2: when Read has failed, none of mu, cdf, a0, aOffset, m, a is still
\* allocated and no table scalar holds a value of the rejected file.
C2_NothingLeftOnFailure ==
    ret = "false" =>
        /\ \A arr \in TableArrays : arr.ptr # "heap"
        /\ fromFile = {}

\* C3: once Read has returned from any point after it stored the header's
\* nChannels, nChannels > 0 holds exactly when Read succeeded, and the
\* FourierBSDF is added only for a table that was read.
C3_ProxyMeansRead ==
    "nChannels" \in fromFile =>
        /\ pc = "returned" => ((nChannels > 0) <=> (ret = "true"))
        /\ bsdfAdded = "added" => ret = "true"

\* C4: a load succeeds only with flags = 1, nChannels in {1, 3} and
\* nBases = 1; a header violating one of them fails at validation, before any
\* allocation and before any word past the header is read.
C4_LoadedOnlyIfSupported ==
    /\ ret = "true" => flags = 1 /\ nChannels \in {1, 3} /\ nBases = 1
    /\ (Did("validate") /\ ~(flags = 1 /\ nChannels \in {1, 3} /\ nBases = 1)) =>
          /\ ret # "true"
          /\ cause = "validation"
          /\ ~Did("alloc")
          /\ Len(file) = 14
          /\ \A arr \in TableArrays : arr.ptr # "heap"

\* a header with flags = 1, nChannels = 1 but nBases = 2 has been rejected
C4_Witness ==
    /\ ret = "false" /\ cause = "validation"
    /\ flags = 1 /\ nChannels = 1 /\ nBases = 2

C7_DerivedFromPairs ==
    ret = "true" =>
        \A k \in 1 .. nMu * nMu :
            LET base == 14 + nMu + nMu * nMu
            IN  /\ aOffset.data[k] = FileWord(base + 2 * k - 1)
                /\ m.data[k] = FileWord(base + 2 * k)
                /\ IF m.data[k] > 0
                   THEN /\ aOffset.data[k] \in 0 .. (Len(a.data) - 1)
                        /\ a0.data[k] = a.data[aOffset.data[k] + 1]
                   ELSE a0.data[k] = 0

\* C8: a complete header read consumes 64 bytes; a successful load then has
\* read nMu, nMu*nMu, 2*nMu*nMu and nCoeffs words in file order, and mu, cdf
\* and a are the written values of their sections, element for element.
C8_RoundTrip ==
    /\ Did("validate") => (Len(file) >= 14 /\ (~Did("alloc") => fpos = 64))
    /\ ret = "true" =>
          LET n == nMu
              n2 == nMu * nMu
          IN  /\ Len(file) = 14 + n + 3 * n2 + nCoeffs
              /\ fpos = 64 + 4 * (n + 3 * n2 + nCoeffs)
              /\ mu.data = [i \in 1 .. n |-> WrittenValue(file[14 + i], FALSE)]
              /\ cdf.data = [i \in 1 .. n2 |-> WrittenValue(file[14 + n + i], FALSE)]
              /\ a.data = [i \in 1 .. nCoeffs |->
                             WrittenValue(file[14 + n + 3 * n2 + i], FALSE)]

\* a table of two angles and two coefficients has been loaded
C8_Witness ==
    /\ ret = "true" /\ nMu = 2 /\ nCoeffs = 2
    /\ Len(mu.data) = 2 /\ Len(cdf.data) = 4 /\ Len(a.data) = 2

FixedOrder ==
    << "open", "magic", "header", "validate", "alloc", "read_mu", "read_cdf",
       "read_offlen", "read_a", "derive", "recip", "close", "return" >>

\* C10: the statements of Read run in the fixed order, each at most once, a
\* failure leaving the order only for the close-and-return of the fail label;
\* nothing is allocated or read past the header before validation passed, a
\* bulk read starts only after the one before it completed, the derivation
\* starts only after all four completed, and true is returned only at the end
\* of the whole order.
C10_LinearSinglePass ==
    /\ \/ IsPrefix(steps, FixedOrder)
       \/ \E p \in {2, 3, 4, 6, 7, 8, 9} :
             steps = SubSeq(FixedOrder, 1, p) \o << "fail_close", "return" >>
    /\ (Did("alloc") \/ Len(file) > 14 \/ \E arr \in TableArrays : arr.ptr = "heap") =>
          /\ Did("validate")
          /\ flags = 1 /\ nChannels \in {1, 3} /\ nBases = 1
    /\ Did("read_cdf") => Len(mu.data) = nMu
    /\ Did("read_offlen") => Len(cdf.data) = nMu * nMu
    /\ (Did("read_a") /\ pc \notin {"returned", "threw"}) =>
          Len(offsetAndLength.data) = 2 * nMu * nMu
    /\ Did("derive") =>
          /\ Len(mu.data) = nMu /\ Len(cdf.data) = nMu * nMu /\ Len(a.data) = nCoeffs
          /\ Len(file) = 14 + nMu + 3 * nMu * nMu + nCoeffs
    /\ ret = "true" => steps = FixedOrder
    /\ ret = "false" => ~Did("derive") /\ ~Did("recip")

\* a load has run the whole order and returned true
C10_Witness == ret = "true" /\ steps = FixedOrder /\ nMu = 2 /\ recip.size = MaxMMax

====
